---- MODULE Spec2Model ----
(***************************************************************************)
(* A model of certifika's ACME account engine (src/src/acme.rs), its JWS   *)
(* signer (src/src/acme/jws.rs) and its object stores (src/src/storage.rs).*)
(*                                                                         *)
(* In Spec one process at a time runs against a store that outlives it (two *)
(* at once in RaceSpec; StoreSpec is the store interface alone).  A process *)
(* builds a session with Account::new or Account::load and then calls the  *)
(* public operations order, info and save.  The ACME server and the store's*)
(* I/O are the environment: every response and every I/O failure is drawn  *)
(* from a small set.                                                       *)
(***************************************************************************)
EXTENDS Integers, Sequences, FiniteSets, TLC

VARIABLES
    store,      \* the backing store: (kind, account name) -> stored value
    backend,    \* which Store implementation the process was configured with
    run,        \* number of processes started so far
    pc,         \* position of the running process
    acc,        \* the Account struct of the running process
    ret,        \* what the last public operation returned to its caller
    wire,       \* the signed POSTs of this process, in order, with their responses
    io,         \* the I/O events of this process, in order
    posts,      \* number of signed POSTs sent so far, by all processes
    issued,     \* number of Replay-Nonce values the server issued to this process
    ops,        \* number of public operations called on the session
    todoAuthz,  \* order(): authorization URLs not yet fetched
    todoChal,   \* order(): challenges of the current authorization not yet visited
    origin,     \* how the session of this process was built: "new" or "load"
    headNonce,  \* the Replay-Nonce of this process's HEAD newNonce response
    saved,      \* per account name: the persisted fields at the last save that returned Ok
    procs       \* processes running at the same time against one store (empty when one runs alone)

vars == <<store, backend, run, pc, acc, ret, wire, io, posts, issued, ops,
          todoAuthz, todoChal, origin, headNonce, saved, procs>>

(***************************************************************************)
(* Bounds of the model.                                                    *)
(***************************************************************************)
MaxRuns == 2    \* processes started one after another on the same store
MaxPosts == 5   \* signed POSTs in one behaviour, over all processes
MaxOps == 2     \* public operations called on one session

(***************************************************************************)
(* Values.                                                                 *)
(***************************************************************************)
None == "<None>"          \* Option::None
Missing == "<missing>"    \* a key a JSON object does not have
Absent == "<absent>"      \* a header a response / a JWS does not have

Emails == {"alice@example.test"}
Kinds == {"KeyPair", "Account", "Directory"}
Backends == {"file", "vault"}

LETSENCRYPT_DIRECTORY_URL == "https://acme-staging-v02.api.letsencrypt.org/directory"

NonceUrl == "https://ca.test/new-nonce"
AccountUrl == "https://ca.test/new-account"
OrderUrl == "https://ca.test/new-order"
\* the account URL the server assigns to the registration of process r
AcctLocation(r) == "https://ca.test/acct/" \o ToString(r)

\* The directory documents the server may answer with (a JSON object, indexed
\* by resource name; Missing where the object has no such key).
NoMap == [newNonce |-> Missing, newAccount |-> Missing, newOrder |-> Missing]
DirectoryDocs ==
    { [newNonce |-> NonceUrl, newAccount |-> AccountUrl, newOrder |-> OrderUrl],
      [newNonce |-> Missing, newAccount |-> AccountUrl, newOrder |-> OrderUrl] }

\* Server-issued nonces are fresh: the i-th nonce issued to process r.
NonceOf(r, i) == "nonce-" \o ToString(r) \o "-" \o ToString(i)

(***************************************************************************)
(* Byte strings.  A stored value records its encoding (raw or base64 text),*)
(* what the raw bytes are (a PKCS#8 blob, UTF-8 text, JSON text) and their *)
(* content.                                                                *)
(***************************************************************************)
Bytes(t, s, d) == [enc |-> "raw", t |-> t, s |-> s, d |-> d]
NoObject == [enc |-> "absent", t |-> "", s |-> "", d |-> NoMap]

EmptyStore == [k \in Kinds \X Emails |-> NoObject]

\* base64::encode / base64::decode (standard alphabet, storage.rs)
base64_encode(b) == [b EXCEPT !.enc = "b64"]
base64_decode(b) ==
    IF b.enc = "b64" THEN [ok |-> TRUE, val |-> [b EXCEPT !.enc = "raw"]]
    ELSE [ok |-> FALSE, val |-> NoObject]

\* a plausible slip: the extension (.dir, .acc, .key) that tells the kinds
\* apart is left out of the name
ObjectPath_without_kind(kind, account_name) == <<"KeyPair", account_name>>

\* the path / file name an object lives under
ObjectPath(kind, account_name) == <<kind, account_name>>

(***************************************************************************)
(* FileStore                                                               *)
(***************************************************************************)
FileStore_read(st, kind, account_name) ==
    LET f == st[ObjectPath(kind, account_name)]
    IN  IF f.enc = "absent" THEN [ok |-> FALSE, val |-> NoObject]
        ELSE [ok |-> TRUE, val |-> f]

\* a plausible slip: the file is opened with create_new, which leaves an
\* existing file as it is, where File::create truncates it
FileStore_write_create_new(st, kind, account_name, payload) ==
    IF st[ObjectPath(kind, account_name)].enc = "absent"
    THEN [st EXCEPT ![ObjectPath(kind, account_name)] = payload]
    ELSE st

FileStore_write(st, kind, account_name, payload) ==
    [st EXCEPT ![ObjectPath(kind, account_name)] = payload]

\* File::create has truncated the file and write_all fails: the file is left
\* with a proper prefix of the payload, possibly nothing
Truncated == Bytes("truncated", "", NoMap)

FileStore_write_torn(st, kind, account_name) ==
    [st EXCEPT ![ObjectPath(kind, account_name)] = Truncated]

(***************************************************************************)
(* VaultStore                                                              *)
(***************************************************************************)
VaultStore_put(st, path, payload) ==
    [st EXCEPT ![path] = base64_encode(payload)]

VaultStore_get(st, path) ==
    IF st[path].enc = "absent" THEN [ok |-> FALSE, val |-> NoObject]
    ELSE [ok |-> TRUE, val |-> st[path]]

\* a read that hands back the stored text without decoding it
VaultStore_read_undecoded(st, kind, account_name) ==
    VaultStore_get(st, ObjectPath(kind, account_name))

VaultStore_read(st, kind, account_name) ==
    LET g == VaultStore_get(st, ObjectPath(kind, account_name))
    IN  IF g.ok THEN base64_decode(g.val) ELSE g

VaultStore_write(st, kind, account_name, payload) ==
    VaultStore_put(st, ObjectPath(kind, account_name), payload)

(***************************************************************************)
(* DbStore (acme/storage.rs): the sled database of the StoreOps trait.     *)
(* db.get(key) is Ok(None) for a key that was never inserted; read unwraps *)
(* both the Result and the Option.                                         *)
(***************************************************************************)
DbStore_read(st, kind, account_name) ==
    LET v == st[ObjectPath(kind, account_name)]
    IN  IF v.enc = "absent" THEN [ok |-> FALSE, val |-> NoObject, panic |-> TRUE]
        ELSE [ok |-> TRUE, val |-> v, panic |-> FALSE]

DbStore_write(st, kind, account_name, payload) ==
    [st EXCEPT ![ObjectPath(kind, account_name)] = payload]

(***************************************************************************)
(* dyn Store: dispatch on the configured backend.                          *)
(***************************************************************************)
Store_read(b, st, kind, account_name) ==
    IF b = "vault" THEN VaultStore_read(st, kind, account_name)
    ELSE FileStore_read(st, kind, account_name)

Store_write(b, st, kind, account_name, payload) ==
    IF b = "vault" THEN VaultStore_write(st, kind, account_name, payload)
    ELSE FileStore_write(st, kind, account_name, payload)

(***************************************************************************)
(* Serializations used by the account engine.                              *)
(***************************************************************************)
NoDirectory == [url |-> "", directory |-> NoMap]

\* a plausible slip: the url field is left out of the serialization
Directory_to_json_without_url(dir) == Bytes("json", "", dir.directory)

\* serde_json::to_string(&Directory) and serde_json::from_slice
Directory_to_json(dir) == Bytes("json", dir.url, dir.directory)
Directory_from_json(b) ==
    IF b.enc = "raw" /\ b.t = "json"
    THEN [ok |-> TRUE, val |-> [url |-> b.s, directory |-> b.d]]
    ELSE [ok |-> FALSE, val |-> NoDirectory]

\* str::as_bytes and std::str::from_utf8
as_bytes(str) == Bytes("utf8", str, NoMap)
from_utf8(b) ==
    IF b.enc = "raw" /\ b.t = "utf8" THEN [ok |-> TRUE, val |-> b.s]
    ELSE [ok |-> FALSE, val |-> None]

\* EcdsaKeyPair::generate_pkcs8 + from_pkcs8: process r draws a fresh key
KeyName(r) == "key-" \o ToString(r)
from_pkcs8(b) ==
    IF b.enc = "raw" /\ b.t = "pkcs8" THEN [ok |-> TRUE, val |-> b.s]
    ELSE [ok |-> FALSE, val |-> None]
generate_keypair(r) ==
    LET pkcs8 == Bytes("pkcs8", KeyName(r), NoMap)
    IN  [key_pair |-> from_pkcs8(pkcs8).val, pkcs8 |-> pkcs8]

(***************************************************************************)
(* jws.rs                                                                  *)
(***************************************************************************)
\* base64url without padding: the empty string encodes to the empty string
b64(data) == IF data = "" THEN "" ELSE "b64url(" \o data \o ")"

jwk(key_pair) == "{crv:P-256,kty:EC,xy:" \o key_pair \o "}"

\* a plausible slip: the jwk is always put in the header, the kid never
sign_always_jwk(key_pair, nonce, url, payload, kid) ==
    [ payload   |-> b64(payload),
      protected |-> [alg |-> "ES256", jwk |-> jwk(key_pair), kid |-> Absent,
                     nonce |-> nonce, url |-> url],
      signer    |-> key_pair ]

\* a plausible slip: nonce and url, both &str, change places
sign_nonce_url_swapped(key_pair, nonce, url, payload, kid) ==
    [ payload   |-> b64(payload),
      protected |-> [alg   |-> "ES256",
                     jwk   |-> IF kid = None THEN jwk(key_pair) ELSE Absent,
                     kid   |-> IF kid = None THEN Absent ELSE kid,
                     nonce |-> url,
                     url   |-> nonce],
      signer    |-> key_pair ]

\* the protected header is kept decoded; a member the header lacks is Absent
sign(key_pair, nonce, url, payload, kid) ==
    [ payload   |-> b64(payload),
      protected |-> [alg   |-> "ES256",
                     jwk   |-> IF kid = None THEN jwk(key_pair) ELSE Absent,
                     kid   |-> IF kid = None THEN Absent ELSE kid,
                     nonce |-> nonce,
                     url   |-> url],
      signer    |-> key_pair ]

(***************************************************************************)
(* acme.rs: Directory                                                      *)
(***************************************************************************)
url_for(dir, resource) ==
    IF resource \in DOMAIN dir.directory /\ dir.directory[resource] # Missing
    THEN dir.directory[resource]
    ELSE None

http_status_ok(status) == 200 <= status /\ status < 300

\* ureq 2.x: call()/send_string() return Err(Error::Status) for 4xx and 5xx,
\* Err(Error::Transport) when no response arrives
ureq_is_err(resp) == ~resp.arrived \/ resp.status >= 400

(***************************************************************************)
(* The server's answers.                                                   *)
(***************************************************************************)
NoBody == [json |-> "none", authorizations |-> <<>>, challenges |-> <<>>]
Garbage == [json |-> "garbage", authorizations |-> <<>>, challenges |-> <<>>]

Authz1 == "https://ca.test/authz/1"
Authz2 == "https://ca.test/authz/2"
AuthzLists == { <<>>, <<Authz1, Authz2>> }

Challenge(type, n) ==
    [type |-> type, url |-> "https://ca.test/chal/" \o type \o "/" \o n, token |-> "tok" \o n]
ChallengeLists ==
    { <<>>,
      <<Challenge("http-01", "1"), Challenge("dns-01", "1"), Challenge("tls-alpn-01", "1")>> }

OrderBodies ==
    { [json |-> "order", authorizations |-> a, challenges |-> <<>>] : a \in AuthzLists }
        \cup {Garbage}
AuthorizationBodies ==
    { [json |-> "authorization", authorizations |-> <<>>, challenges |-> c] :
        c \in ChallengeLists } \cup {Garbage}

\* The responses to a signed POST: none (a transport error), 4xx, 3xx, 2xx.
\* replay and location are the values of the Replay-Nonce and Location
\* headers, Absent when the response lacks the header (a 4xx or a 2xx may
\* lack Replay-Nonce; a 3xx without it takes the path of the 2xx without it).
PostResponses(bodies, locations, nonce) ==
    { [arrived |-> FALSE, status |-> 0, replay |-> Absent, location |-> Absent, body |-> NoBody],
      [arrived |-> TRUE, status |-> 304, replay |-> nonce, location |-> Absent, body |-> NoBody] }
    \cup { [arrived |-> TRUE, status |-> 400, replay |-> rp, location |-> Absent, body |-> NoBody] :
            rp \in {nonce, Absent} }
    \cup { [arrived |-> TRUE, status |-> 200, replay |-> rp, location |-> l, body |-> b] :
            rp \in {nonce, Absent}, l \in locations, b \in bodies }

\* the responses to HEAD newNonce
HeadResponses(nonce) ==
    { [arrived |-> FALSE, status |-> 0, replay |-> Absent],
      [arrived |-> TRUE, status |-> 503, replay |-> nonce],
      [arrived |-> TRUE, status |-> 200, replay |-> nonce],
      [arrived |-> TRUE, status |-> 200, replay |-> Absent] }

\* the responses to GET directory: a failure, or one of the documents
DirectoryResponses ==
    { [ok |-> FALSE, doc |-> NoMap] } \cup { [ok |-> TRUE, doc |-> d] : d \in DirectoryDocs }

DomainLists == { <<"a.test", "b.test">> }

(***************************************************************************)
(* acme.rs: Account                                                        *)
(***************************************************************************)
NoAccount ==
    [email |-> "", directory |-> NoDirectory, key_pair |-> None, pkcs8 |-> NoObject,
     nonce |-> None, kid |-> None]

NoEntry ==
    [resource |-> "", url |-> "", payload |-> "", jws |-> sign(None, None, "", "", None),
     nonceAtSend |-> None, kidAtSend |-> None, arrived |-> FALSE, status |-> 0,
     replay |-> Absent, location |-> Absent, nonceAfter |-> None, out |-> "panic",
     body |-> NoBody]

\* The record of one signed POST and of what came back: a is the session
\* when the request was built, after the session when request returned.
Entry(a, resource, url, payload, jws, resp, after, out) ==
    [resource |-> resource, url |-> url, payload |-> payload, jws |-> jws,
     nonceAtSend |-> a.nonce, kidAtSend |-> a.kid,
     arrived |-> resp.arrived, status |-> resp.status,
     replay |-> resp.replay, location |-> resp.location,
     nonceAfter |-> after.nonce, out |-> out,
     body |-> IF out = "ok" THEN resp.body ELSE NoBody]

Result(a, out, err, sent, entry, status, body) ==
    [acc |-> a, out |-> out, err |-> err, sent |-> sent, entry |-> entry,
     status |-> status, body |-> body]

\* a plausible slip: the body built for the log line (the two characters ""
\* in place of an empty payload) is what gets signed
request_signs_body(a, resource, payload, resp) ==
    LET found == url_for(a.directory, resource)
        url == IF found = None THEN resource ELSE found
        body == IF payload # "" THEN payload ELSE "\"\""
    IN  IF a.nonce = None
        THEN Result(a, "panic", "unwrap: nonce is None", FALSE, NoEntry, 0, NoBody)
        ELSE
        LET jws == sign(a.key_pair, a.nonce, url, body, a.kid)
            a1 == [a EXCEPT !.nonce = resp.replay]
            a2 == IF resource = "newAccount"
                  THEN [a1 EXCEPT !.kid = IF resp.location = Absent THEN "none"
                                          ELSE resp.location]
                  ELSE a1
        IN  IF ureq_is_err(resp)
            THEN Result(a, "err", "Api", TRUE,
                        Entry(a, resource, url, payload, jws, resp, a, "err"),
                        resp.status, NoBody)
            ELSE IF resp.replay = Absent
            THEN Result(a, "panic", "unwrap: no Replay-Nonce", TRUE,
                        Entry(a, resource, url, payload, jws, resp, a, "panic"),
                        resp.status, NoBody)
            ELSE IF http_status_ok(resp.status)
            THEN Result(a2, "ok", "", TRUE,
                        Entry(a, resource, url, payload, jws, resp, a2, "ok"),
                        resp.status, resp.body)
            ELSE Result(a1, "err", "Other: request failed", TRUE,
                        Entry(a, resource, url, payload, jws, resp, a1, "err"),
                        resp.status, NoBody)

\* a plausible slip: the resource is posted to as it is, directory name or not
request_literal_url(a, resource, payload, resp) ==
    LET url == resource
    IN  IF a.nonce = None
        THEN Result(a, "panic", "unwrap: nonce is None", FALSE, NoEntry, 0, NoBody)
        ELSE
        LET jws == sign(a.key_pair, a.nonce, url, payload, a.kid)
            a1 == [a EXCEPT !.nonce = resp.replay]
            a2 == IF resource = "newAccount"
                  THEN [a1 EXCEPT !.kid = IF resp.location = Absent THEN "none"
                                          ELSE resp.location]
                  ELSE a1
        IN  IF ureq_is_err(resp)
            THEN Result(a, "err", "Api", TRUE,
                        Entry(a, resource, url, payload, jws, resp, a, "err"),
                        resp.status, NoBody)
            ELSE IF resp.replay = Absent
            THEN Result(a, "panic", "unwrap: no Replay-Nonce", TRUE,
                        Entry(a, resource, url, payload, jws, resp, a, "panic"),
                        resp.status, NoBody)
            ELSE IF http_status_ok(resp.status)
            THEN Result(a2, "ok", "", TRUE,
                        Entry(a, resource, url, payload, jws, resp, a2, "ok"),
                        resp.status, resp.body)
            ELSE Result(a1, "err", "Other: request failed", TRUE,
                        Entry(a, resource, url, payload, jws, resp, a1, "err"),
                        resp.status, NoBody)

\* a plausible slip: the Location header is taken as the kid after every
\* request, not after newAccount only
request_kid_from_any(a, resource, payload, resp) ==
    LET found == url_for(a.directory, resource)
        url == IF found = None THEN resource ELSE found
    IN  IF a.nonce = None
        THEN Result(a, "panic", "unwrap: nonce is None", FALSE, NoEntry, 0, NoBody)
        ELSE
        LET jws == sign(a.key_pair, a.nonce, url, payload, a.kid)
            a1 == [a EXCEPT !.nonce = resp.replay]
            a2 == [a1 EXCEPT !.kid = IF resp.location = Absent THEN "none"
                                     ELSE resp.location]
        IN  IF ureq_is_err(resp)
            THEN Result(a, "err", "Api", TRUE,
                        Entry(a, resource, url, payload, jws, resp, a, "err"),
                        resp.status, NoBody)
            ELSE IF resp.replay = Absent
            THEN Result(a, "panic", "unwrap: no Replay-Nonce", TRUE,
                        Entry(a, resource, url, payload, jws, resp, a, "panic"),
                        resp.status, NoBody)
            ELSE IF http_status_ok(resp.status)
            THEN Result(a2, "ok", "", TRUE,
                        Entry(a, resource, url, payload, jws, resp, a2, "ok"),
                        resp.status, resp.body)
            ELSE Result(a1, "err", "Other: request failed", TRUE,
                        Entry(a, resource, url, payload, jws, resp, a1, "err"),
                        resp.status, NoBody)

\* Account::request; resp is the server's answer.
request(a, resource, payload, resp) ==
    LET found == url_for(a.directory, resource)
        url == IF found = None THEN resource ELSE found
    IN  IF a.nonce = None
        THEN Result(a, "panic", "unwrap: nonce is None", FALSE, NoEntry, 0, NoBody)
        ELSE
        LET jws == sign(a.key_pair, a.nonce, url, payload, a.kid)
            a1 == [a EXCEPT !.nonce = resp.replay]
            a2 == IF resource = "newAccount"
                  THEN [a1 EXCEPT !.kid = IF resp.location = Absent THEN "none"
                                          ELSE resp.location]
                  ELSE a1
        IN  IF ureq_is_err(resp)
            THEN Result(a, "err", "Api", TRUE,
                        Entry(a, resource, url, payload, jws, resp, a, "err"),
                        resp.status, NoBody)
            ELSE IF resp.replay = Absent
            THEN Result(a, "panic", "unwrap: no Replay-Nonce", TRUE,
                        Entry(a, resource, url, payload, jws, resp, a, "panic"),
                        resp.status, NoBody)
            ELSE IF http_status_ok(resp.status)
            THEN Result(a2, "ok", "", TRUE,
                        Entry(a, resource, url, payload, jws, resp, a2, "ok"),
                        resp.status, resp.body)
            ELSE Result(a1, "err", "Other: request failed", TRUE,
                        Entry(a, resource, url, payload, jws, resp, a1, "err"),
                        resp.status, NoBody)

\* Account::get_nonce
get_nonce(a, resp) ==
    IF url_for(a.directory, "newNonce") = None
    THEN [out |-> "panic", err |-> "unwrap: no newNonce url", sent |-> FALSE, nonce |-> None]
    ELSE IF ureq_is_err(resp)
    THEN [out |-> "err", err |-> "Api", sent |-> TRUE, nonce |-> None]
    ELSE IF resp.replay = Absent
    THEN [out |-> "panic", err |-> "unwrap: no Replay-Nonce", sent |-> TRUE, nonce |-> None]
    ELSE [out |-> "ok", err |-> "", sent |-> TRUE, nonce |-> resp.replay]

\* Account::register
RegistrationPayload(email) ==
    "{contact:[mailto:" \o email \o "],termsOfServiceAgreed:true}"

\* a plausible slip: the Result of request is dropped (let _ = ...), so a
\* rejected registration goes on as an accepted one
register_unchecked(a, resp) ==
    LET r == request(a, "newAccount", RegistrationPayload(a.email), resp)
    IN  IF r.out = "err" THEN [r EXCEPT !.out = "ok", !.err = ""] ELSE r

register(a, resp) ==
    LET r == request(a, "newAccount", RegistrationPayload(a.email), resp)
    IN  IF r.out = "ok" /\ ~http_status_ok(r.status)
        THEN [r EXCEPT !.out = "err", !.err = "Other: registration failed"]
        ELSE r

\* a plausible slip: self.nonce written where self.kid is meant
save_nonce_for_kid(a, st, b, failAt) ==
    LET st1 == Store_write(b, st, "KeyPair", a.email, a.pkcs8)
        st2 == Store_write(b, st1, "Account", a.email, as_bytes(a.nonce))
        st3 == Store_write(b, st2, "Directory", a.email, Directory_to_json(a.directory))
    IN  IF failAt = 0 /\ a.kid # None
        THEN [store |-> st3, out |-> "ok", err |-> "",
              io |-> <<"write KeyPair", "write Account", "write Directory">>]
        ELSE [store |-> st, out |-> "err", err |-> "Store", io |-> <<"write KeyPair">>]

\* a plausible slip: the Result of a write is dropped (let _ = ...) and save
\* goes on to the next object, reporting the failure at the end
save_keeps_going(a, st, b, failAt) ==
    LET st1 == IF failAt = 1 THEN st ELSE Store_write(b, st, "KeyPair", a.email, a.pkcs8)
        st2 == IF failAt = 2 THEN st1
               ELSE Store_write(b, st1, "Account", a.email, as_bytes(a.kid))
        st3 == IF failAt = 3 THEN st2
               ELSE Store_write(b, st2, "Directory", a.email, Directory_to_json(a.directory))
    IN  IF a.kid = None
        THEN [store |-> st1, out |-> "panic", err |-> "unwrap: kid is None",
              io |-> <<"write KeyPair">>]
        ELSE [store |-> st3, out |-> IF failAt = 0 THEN "ok" ELSE "err",
              err |-> IF failAt = 0 THEN "" ELSE "Store",
              io |-> <<"write KeyPair", "write Account", "write Directory">>]

\* Account::save.  failAt = i makes the i-th store write fail (0: none fails).
save(a, st, b, failAt) ==
    LET st1 == Store_write(b, st, "KeyPair", a.email, a.pkcs8)
        st2 == Store_write(b, st1, "Account", a.email, as_bytes(a.kid))
        st3 == Store_write(b, st2, "Directory", a.email, Directory_to_json(a.directory))
    IN  IF failAt = 1 THEN [store |-> st, out |-> "err", err |-> "Store", io |-> <<"write KeyPair">>]
        ELSE IF a.kid = None
        THEN [store |-> st1, out |-> "panic", err |-> "unwrap: kid is None",
              io |-> <<"write KeyPair">>]
        ELSE IF failAt = 2
        THEN [store |-> st1, out |-> "err", err |-> "Store",
              io |-> <<"write KeyPair", "write Account">>]
        ELSE IF failAt = 3
        THEN [store |-> st2, out |-> "err", err |-> "Store",
              io |-> <<"write KeyPair", "write Account", "write Directory">>]
        ELSE [store |-> st3, out |-> "ok", err |-> "",
              io |-> <<"write KeyPair", "write Account", "write Directory">>]

\* Account::load up to the construction of the struct (lines 176-196)
load_begin(email, st, b) ==
    LET k == Store_read(b, st, "KeyPair", email)
        kp == from_pkcs8(k.val)
        d == Store_read(b, st, "Directory", email)
        dir == Directory_from_json(d.val)
        fail(err, evs) == [out |-> "err", err |-> err, acc |-> NoAccount, io |-> evs]
    IN  IF ~k.ok THEN fail("Store", <<"read KeyPair">>)
        ELSE IF ~kp.ok THEN fail("KeyDecode", <<"read KeyPair">>)
        ELSE IF ~d.ok THEN fail("Store", <<"read KeyPair", "read Directory">>)
        ELSE IF ~dir.ok THEN fail("JsonDecode", <<"read KeyPair", "read Directory">>)
        ELSE [out |-> "ok", err |-> "",
              acc |-> [email |-> email, directory |-> dir.val, key_pair |-> kp.val,
                       pkcs8 |-> k.val, nonce |-> None, kid |-> None],
              io |-> <<"read KeyPair", "read Directory">>]

\* Account::load, the kid (lines 198-206)
\* a plausible slip: load returns the struct as built, kid: None, without
\* reading the account URL back
load_kid_skipped(a, st, b) == [out |-> "ok", err |-> "", acc |-> a]

load_kid(a, st, b) ==
    LET u == Store_read(b, st, "Account", a.email)
        str == from_utf8(u.val)
    IN  IF ~u.ok THEN [out |-> "err", err |-> "Store", acc |-> a]
        ELSE IF ~str.ok THEN [out |-> "err", err |-> "Utf8", acc |-> a]
        ELSE [out |-> "ok", err |-> "", acc |-> [a EXCEPT !.kid = str.val]]

\* the fields of a session that save persists
Persisted(a) == [valid |-> TRUE, pkcs8 |-> a.pkcs8, kid |-> a.kid, directory |-> a.directory]
NoSnapshot == [valid |-> FALSE, pkcs8 |-> NoObject, kid |-> None, directory |-> NoDirectory]

\* Account::order, the payload (lines 215-223)
\* a plausible slip: each identifier is put in front of the list
RECURSIVE Identifiers_reversed(_)
Identifiers_reversed(domains) ==
    IF domains = <<>> THEN ""
    ELSE Identifiers_reversed(Tail(domains))
         \o (IF Tail(domains) = <<>> THEN "" ELSE ",")
         \o "{type:dns,value:" \o Head(domains) \o "}"

RECURSIVE Identifiers(_)
Identifiers(domains) ==
    IF domains = <<>> THEN ""
    ELSE "{type:dns,value:" \o Head(domains) \o "}"
         \o (IF Tail(domains) = <<>> THEN "" ELSE ",")
         \o Identifiers(Tail(domains))
OrderPayload(domains) == "{identifiers:[" \o Identifiers(domains) \o "]}"

\* Account::order, the challenges the inner loop acts on (line 230)
\* a plausible slip: the type of the challenge is not looked at
IsDns01_any(c) == c.type # ""
IsDns01(c) == c.type = "dns-01"
SelectedChallenges(challenges) == SelectSeq(challenges, IsDns01)

\* a plausible slip: the JWK itself is encoded, its digest is not taken
key_authorization_undigested(a, token) == token \o "." \o b64(jwk(a.key_pair))

\* Account::key_authorization
key_authorization(a, token) == token \o "." \o b64("sha256(" \o jwk(a.key_pair) \o ")")

\* where order() continues once a step is done
OrderNext(authz, chals) ==
    IF chals # <<>> THEN "order_trigger"
    ELSE IF authz # <<>> THEN "order_authz"
    ELSE "ready"

(***************************************************************************)
(* The state machine.                                                      *)
(***************************************************************************)
\* a process can be started when none is running: at the start, or after the
\* previous one returned from its constructor with an error, panicked, or is
\* left with its session
Rest == {"idle", "failed", "panicked", "ready"}

NextNonce == NonceOf(run, issued + 1)

Init ==
    /\ store = EmptyStore
    /\ backend \in Backends
    /\ run = 0
    /\ pc = "idle"
    /\ acc = NoAccount
    /\ ret = ""
    /\ wire = <<>>
    /\ io = <<>>
    /\ posts = 0
    /\ issued = 0
    /\ ops = 0
    /\ todoAuthz = <<>>
    /\ todoChal = <<>>
    /\ origin = ""
    /\ headNonce = Absent
    /\ saved = [e \in Emails |-> NoSnapshot]
    /\ procs = <<>>

\* what a signed POST leaves behind, whatever the operation that sent it
Posted(r) ==
    /\ acc' = r.acc
    /\ wire' = IF r.sent THEN Append(wire, r.entry) ELSE wire
    /\ posts' = IF r.sent THEN posts + 1 ELSE posts
    /\ issued' = IF r.sent /\ r.entry.replay # Absent THEN issued + 1 ELSE issued
    /\ io' = IF r.sent THEN Append(io, "POST") ELSE io

\* a fresh process: nothing of the previous one is left but the store
Fresh ==
    /\ run' = run + 1
    /\ wire' = <<>>
    /\ issued' = 0
    /\ ops' = 0
    /\ todoAuthz' = <<>>
    /\ todoChal' = <<>>
    /\ headNonce' = Absent

\* Account::new, lines 141-150: the key pair and the directory
New_begin(email, keygen_ok, dresp) ==
    /\ pc \in Rest
    /\ run < MaxRuns
    /\ Fresh
    /\ posts' = posts
    /\ origin' = "new"
    /\ LET kp == generate_keypair(run + 1)
       IN  IF ~keygen_ok
           THEN /\ pc' = "failed" /\ ret' = "Err(KeyGen)" /\ acc' = NoAccount
                /\ io' = <<"keygen">>
           ELSE IF ~dresp.ok
           THEN /\ pc' = "failed" /\ ret' = "Err(Api)" /\ acc' = NoAccount
                /\ io' = <<"keygen", "GET directory">>
           ELSE /\ pc' = "new_nonce" /\ ret' = ""
                /\ acc' = [email |-> email,
                           directory |-> [url |-> LETSENCRYPT_DIRECTORY_URL,
                                          directory |-> dresp.doc],
                           key_pair |-> kp.key_pair, pkcs8 |-> kp.pkcs8,
                           nonce |-> None, kid |-> None]
                /\ io' = <<"keygen", "GET directory">>
    /\ UNCHANGED <<store, backend, procs, saved>>

\* acc.nonce = Some(acc.get_nonce()?), in new (line 151) and in load (line 197)
FetchNonce(resp, next) ==
    LET g == get_nonce(acc, resp)
    IN  /\ io' = IF g.sent THEN Append(io, "HEAD newNonce") ELSE io
        /\ issued' = IF g.sent /\ resp.replay # Absent THEN issued + 1 ELSE issued
        /\ headNonce' = IF g.sent THEN resp.replay ELSE headNonce
        /\ IF g.out = "ok"
           THEN /\ acc' = [acc EXCEPT !.nonce = g.nonce] /\ pc' = next /\ ret' = ""
           ELSE IF g.out = "err"
           THEN /\ acc' = NoAccount /\ pc' = "failed" /\ ret' = "Err(" \o g.err \o ")"
           ELSE /\ acc' = NoAccount /\ pc' = "panicked" /\ ret' = "panic(" \o g.err \o ")"
        /\ UNCHANGED <<store, backend, procs, run, wire, posts, ops, todoAuthz, todoChal,
                       origin, saved>>

New_get_nonce(resp) ==
    /\ pc = "new_nonce"
    /\ FetchNonce(resp, "new_register")

\* acc.register()?, line 152
New_register(resp) ==
    /\ pc = "new_register"
    /\ posts < MaxPosts
    /\ LET r == register(acc, resp)
       IN  /\ Posted(r)
           /\ IF r.out = "ok" THEN pc' = "new_save" /\ ret' = ""
              ELSE IF r.out = "err" THEN pc' = "failed" /\ ret' = "Err(" \o r.err \o ")"
              ELSE pc' = "panicked" /\ ret' = "panic(" \o r.err \o ")"
    /\ UNCHANGED <<store, backend, procs, run, ops, todoAuthz, todoChal, origin, headNonce, saved>>

\* what a save leaves behind, in new and as a public operation
Saved(s) ==
    /\ store' = s.store
    /\ io' = io \o s.io
    /\ saved' = IF s.out = "ok" THEN [saved EXCEPT ![acc.email] = Persisted(acc)]
                ELSE IF s.store = store THEN saved
                ELSE [saved EXCEPT ![acc.email] = NoSnapshot]

\* acc.save()?; Ok(acc), lines 153-154
New_save(failAt) ==
    /\ pc = "new_save"
    /\ LET s == save(acc, store, backend, failAt)
       IN  /\ Saved(s)
           /\ IF s.out = "ok" THEN pc' = "ready" /\ ret' = "Ok"
              ELSE IF s.out = "err" THEN pc' = "failed" /\ ret' = "Err(" \o s.err \o ")"
              ELSE pc' = "panicked" /\ ret' = "panic(" \o s.err \o ")"
    /\ UNCHANGED <<backend, procs, run, acc, wire, posts, issued, ops, todoAuthz, todoChal,
                   origin, headNonce>>

\* Account::load, lines 176-196
Load_begin(email) ==
    /\ pc \in Rest
    /\ run < MaxRuns
    /\ Fresh
    /\ posts' = posts
    /\ origin' = "load"
    /\ LET l == load_begin(email, store, backend)
       IN  /\ io' = l.io
           /\ acc' = l.acc
           /\ IF l.out = "ok" THEN pc' = "load_nonce" /\ ret' = ""
              ELSE pc' = "failed" /\ ret' = "Err(" \o l.err \o ")"
    /\ UNCHANGED <<store, backend, procs, saved>>

\* a plausible slip: load goes on to the kid without fetching a nonce
Load_without_nonce(resp) ==
    /\ pc = "load_nonce"
    /\ pc' = "load_kid"
    /\ UNCHANGED <<store, backend, procs, run, acc, ret, wire, io, posts, issued, ops,
                   todoAuthz, todoChal, origin, headNonce, saved>>

Load_get_nonce(resp) ==
    /\ pc = "load_nonce"
    /\ FetchNonce(resp, "load_kid")

\* Account::load, lines 198-207
Load_kid ==
    /\ pc = "load_kid"
    /\ LET l == load_kid(acc, store, backend)
       IN  /\ io' = Append(io, "read Account")
           /\ IF l.out = "ok" THEN acc' = l.acc /\ pc' = "ready" /\ ret' = "Ok"
              ELSE acc' = NoAccount /\ pc' = "failed" /\ ret' = "Err(" \o l.err \o ")"
    /\ UNCHANGED <<store, backend, procs, run, wire, posts, issued, ops, todoAuthz, todoChal,
                   origin, headNonce, saved>>

\* how a request that failed ends the operation: an error goes back to the
\* caller when the operation propagates it (?), the process is terminated
\* when the operation unwraps it or when request itself panicked
Failed(r, propagates) ==
    IF r.out = "err" /\ propagates
    THEN pc' = "ready" /\ ret' = "Err(" \o r.err \o ")"
    ELSE pc' = "panicked" /\ ret' = "panic(" \o r.err \o ")"

\* Account::order, lines 215-226: the newOrder request and the Order it answers
Order_begin(domains, resp) ==
    /\ pc = "ready"
    /\ ops < MaxOps
    /\ posts < MaxPosts
    /\ ops' = ops + 1
    /\ LET r == request(acc, "newOrder", OrderPayload(domains), resp)
       IN  /\ Posted(r)
           /\ IF r.out # "ok"
              THEN Failed(r, TRUE) /\ UNCHANGED <<todoAuthz, todoChal>>
              ELSE IF ~http_status_ok(r.status)
              THEN /\ pc' = "ready" /\ ret' = "Err(Other: order failed)"
                   /\ UNCHANGED <<todoAuthz, todoChal>>
              ELSE IF r.body.json # "order"
              THEN /\ pc' = "ready" /\ ret' = "Err(JsonDecode)"
                   /\ UNCHANGED <<todoAuthz, todoChal>>
              ELSE /\ todoAuthz' = r.body.authorizations
                   /\ todoChal' = <<>>
                   /\ pc' = OrderNext(r.body.authorizations, <<>>)
                   /\ ret' = IF r.body.authorizations = <<>> THEN "Ok" ELSE ""
    /\ UNCHANGED <<store, backend, procs, run, origin, headNonce, saved>>

\* a plausible slip: a fetch that failed is sent again
Order_authorization_retry(resp) ==
    /\ pc = "order_authz"
    /\ posts < MaxPosts
    /\ LET r == request(acc, Head(todoAuthz), "", resp)
           chals == SelectedChallenges(r.body.challenges)
       IN  /\ Posted(r)
           /\ IF r.out = "err"
              THEN pc' = "order_authz" /\ ret' = "" /\ UNCHANGED <<todoAuthz, todoChal>>
              ELSE IF r.out # "ok"
              THEN Failed(r, TRUE) /\ todoAuthz' = <<>> /\ todoChal' = <<>>
              ELSE /\ todoAuthz' = Tail(todoAuthz)
                   /\ todoChal' = chals
                   /\ pc' = OrderNext(Tail(todoAuthz), chals)
                   /\ ret' = IF OrderNext(Tail(todoAuthz), chals) = "ready" THEN "Ok" ELSE ""
    /\ UNCHANGED <<store, backend, procs, run, ops, origin, headNonce, saved>>

\* Account::authorization, called at line 228 for the next authorization URL
Order_authorization(resp) ==
    /\ pc = "order_authz"
    /\ posts < MaxPosts
    /\ LET r == request(acc, Head(todoAuthz), "", resp)
           chals == SelectedChallenges(r.body.challenges)
       IN  /\ Posted(r)
           /\ IF r.out # "ok"
              THEN Failed(r, TRUE) /\ todoAuthz' = <<>> /\ todoChal' = <<>>
              ELSE IF ~http_status_ok(r.status)
              THEN /\ pc' = "ready" /\ ret' = "Err(Other: authorization failed)"
                   /\ todoAuthz' = <<>> /\ todoChal' = <<>>
              ELSE IF r.body.json # "authorization"
              THEN /\ pc' = "ready" /\ ret' = "Err(JsonDecode)"
                   /\ todoAuthz' = <<>> /\ todoChal' = <<>>
              ELSE /\ todoAuthz' = Tail(todoAuthz)
                   /\ todoChal' = chals
                   /\ pc' = OrderNext(Tail(todoAuthz), chals)
                   /\ ret' = IF OrderNext(Tail(todoAuthz), chals) = "ready" THEN "Ok" ELSE ""
    /\ UNCHANGED <<store, backend, procs, run, ops, origin, headNonce, saved>>

\* a plausible slip: the status poll after the trigger is left out
Order_trigger_no_poll(resp) ==
    /\ pc = "order_trigger"
    /\ posts < MaxPosts
    /\ LET r == request(acc, Head(todoChal).url, "{}", resp)
       IN  /\ Posted(r)
           /\ IF r.out # "ok"
              THEN pc' = "panicked" /\ ret' = "panic" /\ todoAuthz' = <<>> /\ todoChal' = <<>>
              ELSE /\ todoChal' = Tail(todoChal)
                   /\ pc' = OrderNext(todoAuthz, Tail(todoChal))
                   /\ ret' = IF OrderNext(todoAuthz, Tail(todoChal)) = "ready" THEN "Ok" ELSE ""
                   /\ UNCHANGED todoAuthz
    /\ UNCHANGED <<store, backend, procs, run, ops, origin, headNonce, saved>>

\* Account::trigger_challenge, called at line 232 for the next dns-01 challenge
Order_trigger(resp) ==
    /\ pc = "order_trigger"
    /\ posts < MaxPosts
    /\ LET r == request(acc, Head(todoChal).url, "{}", resp)
       IN  /\ Posted(r)
           /\ IF r.out # "ok"
              THEN Failed(r, FALSE) /\ todoAuthz' = <<>> /\ todoChal' = <<>>
              ELSE /\ pc' = "order_status" /\ ret' = ""
                   /\ UNCHANGED <<todoAuthz, todoChal>>
    /\ UNCHANGED <<store, backend, procs, run, ops, origin, headNonce, saved>>

\* Account::challenge_status, called at line 235 after the sleep
Order_status(resp) ==
    /\ pc = "order_status"
    /\ posts < MaxPosts
    /\ LET r == request(acc, Head(todoChal).url, "", resp)
       IN  /\ Posted(r)
           /\ IF r.out # "ok"
              THEN Failed(r, FALSE) /\ todoAuthz' = <<>> /\ todoChal' = <<>>
              ELSE /\ todoChal' = Tail(todoChal)
                   /\ pc' = OrderNext(todoAuthz, Tail(todoChal))
                   /\ ret' = IF OrderNext(todoAuthz, Tail(todoChal)) = "ready" THEN "Ok" ELSE ""
                   /\ UNCHANGED todoAuthz
    /\ UNCHANGED <<store, backend, procs, run, ops, origin, headNonce, saved>>

\* Account::info
Info(resp) ==
    /\ pc = "ready"
    /\ ops < MaxOps
    /\ posts < MaxPosts
    /\ ops' = ops + 1
    /\ IF acc.kid = None
       THEN /\ pc' = "panicked" /\ ret' = "panic(unwrap: kid is None)"
            /\ UNCHANGED <<acc, wire, posts, issued, io>>
       ELSE LET r == request(acc, acc.kid, "", resp)
            IN  /\ Posted(r)
                /\ IF r.out # "ok" THEN Failed(r, FALSE)
                   ELSE pc' = "ready" /\ ret' = "Ok"
    /\ UNCHANGED <<store, backend, procs, run, todoAuthz, todoChal, origin, headNonce, saved>>

\* Account::save, called by the owner of the session
Save(failAt) ==
    /\ pc = "ready"
    /\ ops < MaxOps
    /\ ops' = ops + 1
    /\ LET s == save(acc, store, backend, failAt)
       IN  /\ Saved(s)
           /\ IF s.out = "ok" THEN pc' = "ready" /\ ret' = "Ok"
              ELSE IF s.out = "err" THEN pc' = "ready" /\ ret' = "Err(" \o s.err \o ")"
              ELSE pc' = "panicked" /\ ret' = "panic(" \o s.err \o ")"
    /\ UNCHANGED <<backend, procs, run, acc, wire, posts, issued, todoAuthz, todoChal,
                   origin, headNonce>>

Next ==
    \/ \E email \in Emails, keygen_ok \in BOOLEAN, dresp \in DirectoryResponses :
            New_begin(email, keygen_ok, dresp)
    \/ \E resp \in HeadResponses(NextNonce) : New_get_nonce(resp)
    \/ \E resp \in PostResponses({NoBody}, {Absent, AcctLocation(run)}, NextNonce) :
            New_register(resp)
    \/ \E failAt \in 0..3 : New_save(failAt)
    \/ \E email \in Emails : Load_begin(email)
    \/ \E resp \in HeadResponses(NextNonce) : Load_get_nonce(resp)
    \/ Load_kid
    \/ \E domains \in DomainLists, resp \in PostResponses(OrderBodies, {Absent}, NextNonce) :
            Order_begin(domains, resp)
    \/ \E resp \in PostResponses(AuthorizationBodies, {Absent}, NextNonce) :
            Order_authorization(resp)
    \/ \E resp \in PostResponses({NoBody}, {Absent}, NextNonce) : Order_trigger(resp)
    \/ \E resp \in PostResponses({NoBody}, {Absent}, NextNonce) : Order_status(resp)
    \/ \E resp \in PostResponses({NoBody}, {Absent}, NextNonce) : Info(resp)
    \/ \E failAt \in 0..3 : Save(failAt)

Spec == Init /\ [][Next]_vars

(***************************************************************************)
(* Properties.                                                             *)
(***************************************************************************)
Signed == 1..Len(wire)
Header(i) == wire[i].jws.protected

\* a session has been handed to the caller and the process is alive
InSession == pc \in {"ready", "order_authz", "order_trigger", "order_status"}

\* the Replay-Nonce of the latest response received before the i-th signed
\* request: of an earlier signed request, else of HEAD newNonce
RECURSIVE LatestReplay(_)
LatestReplay(i) ==
    IF i = 1 THEN headNonce
    ELSE IF wire[i - 1].arrived /\ wire[i - 1].replay # Absent THEN wire[i - 1].replay
    ELSE LatestReplay(i - 1)

\* C1: for every signed request the server answered, whatever the status of
\* the answer, the session's nonce after the request is the answer's
\* Replay-Nonce.
C1_NonceFollowsEveryResponse ==
    \A i \in Signed :
        (wire[i].arrived /\ wire[i].replay # Absent) => wire[i].nonceAfter = wire[i].replay

\* C2: within one session no nonce is put in the protected header of two
\* signed requests: each carries the Replay-Nonce of the response received
\* immediately before it, the first one the HEAD newNonce value.
C2_NonceNeverReused ==
    /\ \A i, j \in Signed : i < j => Header(i).nonce # Header(j).nonce
    /\ \A i \in Signed : Header(i).nonce = LatestReplay(i)

\* C3: whenever request signs, the session holds a nonce: both constructors
\* set it from HEAD newNonce before any signed request and nothing resets it.
C3_NoncePresentWhenSigning ==
    /\ \A i \in Signed : wire[i].nonceAtSend \notin {None, Absent}
    /\ ret # "panic(unwrap: nonce is None)"
    /\ pc \in {"new_register", "new_save", "load_kid"} \/ InSession
            => acc.nonce \notin {None, Absent}

C3_Witness ==
    /\ origin = "load"
    /\ pc = "ready"
    /\ Len(wire) >= 2
    /\ wire[1].out = "err"

\* C4: the newAccount request of new is signed with the jwk and no kid; every
\* signed request after newAccount succeeded, or in a loaded session, is
\* signed with the session's kid and no jwk; once the kid is used it stays.
C4_JwkThenKid ==
    /\ \A i \in Signed :
        /\ (origin = "new" /\ i = 1) =>
                /\ wire[i].resource = "newAccount"
                /\ wire[i].kidAtSend = None
                /\ Header(i).jwk = jwk(acc.key_pair)
                /\ Header(i).kid = Absent
        /\ (origin = "load" \/ i > 1) =>
                /\ wire[i].kidAtSend # None
                /\ Header(i).kid = wire[i].kidAtSend
                /\ Header(i).jwk = Absent
        /\ (origin = "new" /\ i > 1) => wire[1].out = "ok"
    /\ \A i, j \in Signed :
        (i < j /\ Header(i).kid # Absent) => Header(j).kid = Header(i).kid
    /\ InSession => acc.kid # None /\ \A i \in Signed : Header(i).kid \in {Absent, acc.kid}

C4_Witness ==
    /\ origin = "new"
    /\ Len(wire) >= 3
    /\ wire[2].out = "err"

\* C5: the protected header of every request holds exactly one of jwk and
\* kid, alg ES256, the URL the POST goes to and the session's nonce at the
\* moment of sending.
C5_ProtectedHeader ==
    \A i \in Signed :
        /\ (Header(i).jwk = Absent) # (Header(i).kid = Absent)
        /\ Header(i).alg = "ES256"
        /\ Header(i).url = wire[i].url
        /\ Header(i).nonce = wire[i].nonceAtSend

C5_Witness ==
    \E i \in Signed :
        /\ wire[i].resource = "newOrder"
        /\ wire[i].url = OrderUrl
        /\ Header(i).kid # Absent

\* C6: whenever new returns a session, its kid is the Location header of the
\* 2xx newAccount response and the store holds, under the email, the PKCS#8
\* blob, that account URL and the serialized directory.
C6_NewReturnsRegisteredSession ==
    (origin = "new" /\ pc = "ready" /\ ops = 0) =>
        /\ wire[1].location # Absent
        /\ acc.kid = wire[1].location
        /\ Store_read(backend, store, "KeyPair", acc.email) = [ok |-> TRUE, val |-> acc.pkcs8]
        /\ Store_read(backend, store, "Account", acc.email)
              = [ok |-> TRUE, val |-> as_bytes(wire[1].location)]
        /\ Store_read(backend, store, "Directory", acc.email)
              = [ok |-> TRUE, val |-> Directory_to_json(acc.directory)]

\* C7: when the 2xx newAccount response has no Location header, registration
\* fails: no session is returned, the kid is never set to something that is
\* not a server-issued account URL, no account URL is stored.
C7_MissingLocationFailsRegistration ==
    (origin = "new" /\ Len(wire) >= 1 /\ wire[1].out = "ok" /\ wire[1].location = Absent) =>
        /\ pc \in {"failed", "panicked"}
        /\ acc.kid \in {None, AcctLocation(run)}
        /\ \A e \in Emails :
              Store_read(backend, store, "Account", e).val.s \in {"", AcctLocation(run)}

\* C8: after save(A) returned Ok, load(A.email) on the same store yields a
\* session with A's PKCS#8 blob, kid and directory; only the nonce differs,
\* being freshly fetched.
C8_LoadAfterSave ==
    (origin = "load" /\ pc = "ready" /\ saved[acc.email].valid) =>
        /\ Persisted(acc) = saved[acc.email]
        /\ acc.key_pair = from_pkcs8(saved[acc.email].pkcs8).val
        /\ ops = 0 => acc.nonce = NonceOf(run, 1)

C8_Witness ==
    /\ origin = "load"
    /\ pc = "ready"
    /\ ops = 0
    /\ saved[acc.email].valid
    /\ acc.kid = AcctLocation(1)

\* save(A) into an empty store of backend b, then load(A.email) from it,
\* the nonce fetch left aside
SaveThenLoad(b, a) ==
    LET s == save(a, EmptyStore, b, 0)
        l == load_begin(a.email, s.store, b)
        k == load_kid(l.acc, s.store, b)
    IN  IF s.out # "ok" \/ l.out # "ok" \/ k.out # "ok"
        THEN [ok |-> FALSE, fields |-> NoSnapshot, key_pair |-> None]
        ELSE [ok |-> TRUE, fields |-> Persisted(k.acc), key_pair |-> k.acc.key_pair]

\* C9: the file store and the Vault store are equivalent for the account
\* engine: for every session, save then load gives the same persisted fields
\* through either, the Vault store's base64 encoding being undone on read.
C9_BackendsEquivalent ==
    (acc.kid # None) =>
        LET f == SaveThenLoad("file", acc)
            v == SaveThenLoad("vault", acc)
        IN  /\ f = v
            /\ v.ok
            /\ v.fields = Persisted(acc)

C9_Witness ==
    /\ backend = "vault"
    /\ origin = "load"
    /\ pc = "ready"
    /\ \A k \in Kinds : store[ObjectPath(k, acc.email)].enc = "b64"

\* every nonce the server can have issued so far
IssuedNonces == { NonceOf(r, i) : r \in 1..run, i \in 1..(posts + 1) }

\* C10: the nonce is never persisted: the store holds only the three kinds
\* of objects, none of them contains a nonce, and a load takes its nonce
\* from a HEAD newNonce of its own.
C10_NonceNeverPersisted ==
    /\ LET nonces == IssuedNonces
       IN  \A k \in Kinds, e \in Emails :
          LET o == Store_read(backend, store, k, e)
          IN  o.ok =>
                /\ o.val.s \notin nonces
                /\ o.val.t = (CASE k = "KeyPair" -> "pkcs8"
                                [] k = "Account" -> "utf8"
                                [] k = "Directory" -> "json")
    /\ (origin = "load" /\ (pc = "load_kid" \/ (pc = "ready" /\ wire = <<>>))) =>
          /\ acc.nonce = headNonce
          /\ headNonce = NonceOf(run, 1)
          /\ SubSeq(io, 1, 3) = <<"read KeyPair", "read Directory", "HEAD newNonce">>
    /\ \A i \in 1..Len(io) :
          io[i] \in {"keygen", "GET directory", "HEAD newNonce", "POST",
                     "read KeyPair", "read Directory", "read Account",
                     "write KeyPair", "write Account", "write Directory"}

C10_Witness ==
    /\ origin = "load"
    /\ pc = "ready"
    /\ wire = <<>>
    /\ run = 2
    /\ \E i \in 1..Len(io) : io[i] = "write Account"

\* the latest signed request of the session and what came back
Latest == wire[Len(wire)]

\* the failure of its own each protocol step reports (registration failed,
\* order failed, authorization failed)
StepFailure(resource) ==
    IF resource = "newAccount" THEN "Err(Other: registration failed)"
    ELSE IF resource = "newOrder" THEN "Err(Other: order failed)"
    ELSE IF resource \in {Authz1, Authz2} THEN "Err(Other: authorization failed)"
    ELSE ""

\* C11: when the server answers newAccount, newOrder or an authorization
\* fetch with a non-2xx status, the operation fails with the step's own
\* failure (registration failed, order failed, authorization failed).
C11_StepFailureOnNon2xx ==
    (/\ wire # <<>>
     /\ pc \in {"failed", "ready"}
     /\ ret \notin {"Ok", "Err(Store)"}
     /\ Latest.arrived
     /\ ~http_status_ok(Latest.status)
     /\ StepFailure(Latest.resource) # "")
        => ret = StepFailure(Latest.resource)

\* C12: a failure of a server interaction inside order (its challenge
\* trigger and challenge status included) or info goes back to the caller as
\* an error value; the process is terminated only when the response lacks a
\* mandatory header.
C12_FailuresAreReturned ==
    (pc = "panicked" /\ ops > 0 /\ wire # <<>>) =>
        /\ Latest.arrived
        /\ Latest.status < 400
        /\ Latest.replay = Absent

IsAuthzFetch(e) == e.resource \in {Authz1, Authz2}
Urls(entries) == [i \in 1..Len(entries) |-> entries[i].url]

\* the index of the first newOrder request after the i-th signed request,
\* Len(w) + 1 when there is none
RECURSIVE NextOrder(_, _)
NextOrder(w, i) ==
    IF i >= Len(w) THEN Len(w) + 1
    ELSE IF w[i + 1].resource = "newOrder" THEN i + 1
    ELSE NextOrder(w, i + 1)

\* the URLs of the authorization fetches that follow the newOrder request i
Fetched(w, i) == Urls(SelectSeq(SubSeq(w, i + 1, NextOrder(w, i) - 1), IsAuthzFetch))

C13_Requests(w) ==
    /\ \A i \in 1..Len(w) :
        /\ w[i].resource = "newOrder" =>
            /\ w[i].url = OrderUrl
            /\ w[i].payload =
                 "{identifiers:[{type:dns,value:a.test},{type:dns,value:b.test}]}"
            /\ w[i].jws.payload = b64(w[i].payload)
            /\ Len(Fetched(w, i)) <= Len(w[i].body.authorizations)
            /\ Fetched(w, i) = SubSeq(w[i].body.authorizations, 1, Len(Fetched(w, i)))
        /\ IsAuthzFetch(w[i]) =>
            /\ w[i].url = w[i].resource
            /\ w[i].jws.payload = ""
            /\ w[i].jws.protected.kid \notin {Absent, None}
            /\ w[i].jws.protected.jwk = Absent
            /\ \E j \in 1..(i - 1) : w[j].resource = "newOrder" /\ NextOrder(w, j) > i

\* the newOrder request of the order call running or last run
LastOrder(w) == CHOOSE i \in 1..Len(w) : w[i].resource = "newOrder" /\ NextOrder(w, i) > Len(w)

\* C13: order POSTs to newOrder one {type: dns, value: d} identifier per
\* domain in the order of domains; the authorization fetches that follow are
\* the Order's authorization URLs in list order, exactly all of them when
\* order returns Ok, each with empty wire payload and signed with the kid.
C13_OrderFetchesEachAuthorization ==
    [][ /\ C13_Requests(wire')
        /\ (/\ pc \in {"ready", "order_authz", "order_status"}
            /\ Len(wire') = Len(wire) + 1
            /\ wire'[Len(wire')].resource # acc.kid
            /\ pc' = "ready" /\ ret' = "Ok")
              => Fetched(wire', LastOrder(wire')) = wire'[LastOrder(wire')].body.authorizations
      ]_vars

C13_Witness ==
    /\ pc = "ready" /\ ret = "Ok"
    /\ wire # <<>>
    /\ IsAuthzFetch(Latest)
    /\ wire[LastOrder(wire)].body.authorizations = <<Authz1, Authz2>>
    /\ Fetched(wire, LastOrder(wire)) = <<Authz1, Authz2>>

\* the challenges the authorizations fetched so far have offered
Offered(w) == UNION { { w[j].body.challenges[n] : n \in 1..Len(w[j].body.challenges) } :
                        j \in 1..Len(w) }

\* C14: the trigger payload {} is POSTed only to URLs of dns-01 challenges
\* of an authorization returned before; no request is ever sent to the URL
\* of a challenge of another type.
C14_OnlyDns01Triggered ==
    \A i \in Signed :
        /\ \A c \in Offered(wire) : c.type # "dns-01" => wire[i].url # c.url
        /\ wire[i].payload = "{}" =>
              \E c \in Offered(SubSeq(wire, 1, i - 1)) :
                  c.type = "dns-01" /\ c.url = wire[i].url

C14_Witness ==
    /\ \E c \in Offered(wire) : c.type = "http-01"
    /\ \E c \in Offered(wire) : c.type = "tls-alpn-01"
    /\ \E i \in Signed : wire[i].payload = "{}" /\ wire[i].out = "ok"
    /\ pc = "order_authz"

\* the wire payload field of the i-th signed request
WirePayload(i) == wire[i].jws.payload
IsChallengeRequest(i) == \E c \in Offered(SubSeq(wire, 1, i - 1)) : c.url = wire[i].url
IsInfo(i) == wire[i].resource = wire[i].kidAtSend

\* C15: authorization fetches, challenge status polls and info are sent
\* with the empty string in the wire payload field, challenge triggers and
\* only they with the encoding of {}; no request carries the encoding of
\* another body in place of the empty payload.
C15_EmptyPayloadStaysEmpty ==
    \A i \in Signed :
        /\ WirePayload(i) \in {"", "b64url({})", "b64url(" \o OrderPayload(<<"a.test", "b.test">>) \o ")",
                               "b64url(" \o RegistrationPayload(acc.email) \o ")"}
              \/ wire[i].resource = "newAccount"
        /\ (IsAuthzFetch(wire[i]) \/ IsInfo(i)) => WirePayload(i) = ""
        /\ WirePayload(i) = "b64url({})" =>
              /\ IsChallengeRequest(i)
              /\ i > 1 /\ WirePayload(i - 1) = ""
        /\ (IsChallengeRequest(i) /\ WirePayload(i - 1) = "b64url({})") => WirePayload(i) = ""
        /\ wire[i].resource \in {"newAccount", "newOrder"} => WirePayload(i) \notin {"", "b64url({})"}

C15_Witness ==
    /\ \E i \in Signed : IsAuthzFetch(wire[i]) /\ WirePayload(i) = ""
    /\ \E i \in Signed : IsChallengeRequest(i) /\ WirePayload(i) = "b64url({})"
    /\ \E i \in Signed : IsChallengeRequest(i) /\ WirePayload(i) = "" /\ wire[i].out = "ok"

(***************************************************************************)
(* The store interface alone: reads and writes of the three kinds of       *)
(* object through each backend of the repository, the sled database of     *)
(* acme/storage.rs included.  io holds the latest call.                    *)
(***************************************************************************)
AllBackends == Backends \cup {"db"}

AnyStore_read(b, st, kind, account_name) ==
    IF b = "db" THEN DbStore_read(st, kind, account_name)
    ELSE LET r == Store_read(b, st, kind, account_name)
         IN  [ok |-> r.ok, val |-> r.val, panic |-> FALSE]

AnyStore_write(b, st, kind, account_name, payload) ==
    IF b = "db" THEN DbStore_write(st, kind, account_name, payload)
    ELSE Store_write(b, st, kind, account_name, payload)

\* the objects a caller writes: what save writes for a session
Payloads(kind) ==
    CASE kind = "KeyPair" -> { generate_keypair(r).pkcs8 : r \in 1..2 }
      [] kind = "Account" -> { as_bytes(AcctLocation(r)) : r \in 1..2 }
      [] kind = "Directory" ->
            { Directory_to_json([url |-> LETSENCRYPT_DIRECTORY_URL, directory |-> d]) :
                d \in DirectoryDocs }

\* the variables of the account engine, which the store interface leaves alone
Engine == <<run, acc, wire, posts, issued, ops, todoAuthz, todoChal, origin,
            headNonce, saved, procs>>

StoreInit ==
    /\ store = EmptyStore
    /\ backend \in AllBackends
    /\ pc = "idle"
    /\ ret = ""
    /\ io = <<>>
    /\ run = 0 /\ acc = NoAccount /\ wire = <<>> /\ posts = 0 /\ issued = 0 /\ ops = 0
    /\ todoAuthz = <<>> /\ todoChal = <<>> /\ origin = "" /\ headNonce = Absent
    /\ saved = [e \in Emails |-> NoSnapshot]
    /\ procs = <<>>

\* fails: "no"; "before" anything is stored (File::create, the Vault POST
\* or sled's insert returns the error); "during" (FileStore only: write_all
\* returns the error after File::create truncated the file)
WriteFailures == {"no", "before", "during"}

Store_Write(kind, account_name, payload, fails) ==
    /\ fails = "during" => backend = "file"
    /\ io' = <<[op |-> "write", kind |-> kind, name |-> account_name,
                written |-> store[ObjectPath(kind, account_name)].enc # "absent",
                val |-> payload]>>
    /\ store' = IF fails = "no"
                THEN AnyStore_write(backend, store, kind, account_name, payload)
                ELSE IF fails = "during"
                THEN FileStore_write_torn(store, kind, account_name)
                ELSE store
    /\ ret' = IF fails = "no" THEN "Ok" ELSE "Err(Store)"
    /\ pc' = "ready"
    /\ UNCHANGED <<backend, Engine>>

Store_Read(kind, account_name) ==
    LET r == AnyStore_read(backend, store, kind, account_name)
    IN  /\ io' = <<[op |-> "read", kind |-> kind, name |-> account_name,
                    written |-> store[ObjectPath(kind, account_name)].enc # "absent",
                    val |-> r.val]>>
        /\ ret' = IF r.panic THEN "panic(unwrap on None)"
                  ELSE IF r.ok THEN "Ok" ELSE "Err(Store)"
        /\ pc' = IF r.panic THEN "panicked" ELSE "ready"
        /\ UNCHANGED <<store, backend, Engine>>

StoreNext ==
    \/ \E kind \in Kinds, e \in Emails, fails \in WriteFailures :
            \E payload \in Payloads(kind) : Store_Write(kind, e, payload, fails)
    \/ \E kind \in Kinds, e \in Emails : Store_Read(kind, e)

StoreSpec == StoreInit /\ [][StoreNext]_vars

\* C16: through every backend, read(kind, name) of a key that was never
\* written returns an error value to the caller: no bytes, and the process
\* is not aborted.
C16_ReadOfUnwrittenKeyIsAnError ==
    (io # <<>> /\ io[1].op = "read" /\ ~io[1].written) =>
        /\ pc # "panicked"
        /\ ret = "Err(Store)"
        /\ io[1].val = NoObject

(***************************************************************************)
(* Two processes run Account::new for the same account name at the same    *)
(* time against one store.  Each store write is one step (the store's      *)
(* writes are taken as atomic per key); the steps of the two processes     *)
(* interleave freely, nothing in acme.rs locks.  io is the order in which  *)
(* the writes reached the store.                                           *)
(***************************************************************************)
Procs == {1, 2}

\* the n-th store write of Account::save
save_write(a, st, b, n) ==
    CASE n = 1 -> Store_write(b, st, "KeyPair", a.email, a.pkcs8)
      [] n = 2 -> Store_write(b, st, "Account", a.email, as_bytes(a.kid))
      [] n = 3 -> Store_write(b, st, "Directory", a.email, Directory_to_json(a.directory))

\* Account::new up to acc.register()?, for process p
new_registered(p, email, doc, head, resp) ==
    LET kp == generate_keypair(p)
        a0 == [email |-> email,
               directory |-> [url |-> LETSENCRYPT_DIRECTORY_URL, directory |-> doc],
               key_pair |-> kp.key_pair, pkcs8 |-> kp.pkcs8, nonce |-> None, kid |-> None]
        g == get_nonce(a0, head)
        r == register([a0 EXCEPT !.nonce = g.nonce], resp)
    IN  IF g.out # "ok" THEN [out |-> g.out, acc |-> NoAccount]
        ELSE [out |-> r.out, acc |-> IF r.out = "ok" THEN r.acc ELSE NoAccount]

RaceInit ==
    /\ store = EmptyStore
    /\ backend \in Backends
    /\ procs = [p \in Procs |-> [pc |-> "start", n |-> 0, acc |-> NoAccount]]
    /\ io = <<>>
    /\ pc = "idle" /\ ret = ""
    /\ run = 0 /\ acc = NoAccount /\ wire = <<>> /\ posts = 0 /\ issued = 0 /\ ops = 0
    /\ todoAuthz = <<>> /\ todoChal = <<>> /\ origin = "" /\ headNonce = Absent
    /\ saved = [e \in Emails |-> NoSnapshot]

RaceRest == <<backend, pc, ret, run, acc, wire, posts, issued, ops, todoAuthz, todoChal,
              origin, headNonce, saved>>

\* process p: key pair, directory, nonce, registration (acme.rs:141-152)
Race_register(p, email, doc, head, resp) ==
    /\ procs[p].pc = "start"
    /\ LET r == new_registered(p, email, doc, head, resp)
       IN  procs' = [procs EXCEPT ![p] =
                        IF r.out = "ok" THEN [pc |-> "save", n |-> 1, acc |-> r.acc]
                        ELSE [pc |-> "failed", n |-> 0, acc |-> NoAccount]]
    /\ UNCHANGED <<store, io, RaceRest>>

\* process p: the next store write of acc.save()? (acme.rs:153)
Race_write(p, io_ok) ==
    /\ procs[p].pc = "save"
    /\ IF io_ok
       THEN /\ store' = save_write(procs[p].acc, store, backend, procs[p].n)
            /\ io' = Append(io, [p |-> p, n |-> procs[p].n])
            /\ procs' = [procs EXCEPT ![p].pc = IF procs[p].n = 3 THEN "done" ELSE "save",
                                      ![p].n = IF procs[p].n = 3 THEN 3 ELSE procs[p].n + 1]
       ELSE /\ procs' = [procs EXCEPT ![p].pc = "failed"]
            /\ UNCHANGED <<store, io>>
    /\ UNCHANGED RaceRest

RaceNext ==
    \/ \E p \in Procs, email \in Emails, doc \in DirectoryDocs :
         \E head \in HeadResponses(NonceOf(p, 1)),
            resp \in PostResponses({NoBody}, {AcctLocation(p)}, NonceOf(p, 2)) :
                Race_register(p, email, doc, head, resp)
    \/ \E p \in Procs, io_ok \in BOOLEAN : Race_write(p, io_ok)

RaceSpec == RaceInit /\ [][RaceNext]_vars

BothRegistered == \A p \in Procs : procs[p].pc = "done"

\* the store holds, for the name, exactly what save writes for session a
HoldsObjectsOf(a) ==
    /\ Store_read(backend, store, "KeyPair", a.email) = [ok |-> TRUE, val |-> a.pkcs8]
    /\ Store_read(backend, store, "Account", a.email) = [ok |-> TRUE, val |-> as_bytes(a.kid)]
    /\ Store_read(backend, store, "Directory", a.email)
          = [ok |-> TRUE, val |-> Directory_to_json(a.directory)]

\* the process whose save finished last
FinishedLast == io[Len(io)].p

\* the writes of one process all reached the store before those of the other
OneAfterTheOther == \A i \in 1..3 : io[i].p = io[1].p

\* C17: two processes register the same name against the same store, their
\* store writes interleaved in any order: after both have finished the store
\* holds the key pair, account URL and directory of the registration that
\* finished last, never a mix.
C17_LastRegistrationWins ==
    BothRegistered => HoldsObjectsOf(procs[FinishedLast].acc)

\* C17 as amended: the same when the store writes of the second registration
\* all follow those of the first.
C17_SecondOverwritesFirst ==
    (BothRegistered /\ OneAfterTheOther) => HoldsObjectsOf(procs[FinishedLast].acc)

C17_Witness ==
    /\ BothRegistered
    /\ OneAfterTheOther
    /\ io[1].p # FinishedLast
    /\ procs[1].acc.kid # procs[2].acc.kid
    /\ procs[1].acc.pkcs8 # procs[2].acc.pkcs8

(***************************************************************************)
(* Account::key_authorization alone: a session drawn from a small set, and *)
(* calls with tokens drawn from a small set.  io holds the token of the    *)
(* latest call, ret what it returned.                                      *)
(***************************************************************************)
KeySessions ==
    { [email |-> e,
       directory |-> [url |-> LETSENCRYPT_DIRECTORY_URL, directory |-> doc],
       key_pair |-> generate_keypair(r).key_pair, pkcs8 |-> generate_keypair(r).pkcs8,
       nonce |-> n, kid |-> k] :
        e \in Emails, doc \in DirectoryDocs, r \in 1..3,
        n \in {NonceOf(1, 1), NonceOf(1, 2)}, k \in {AcctLocation(1), "none"} }

Tokens == { Challenge("dns-01", n).token : n \in {"1", "2", "3", "4"} }

KeyInit ==
    /\ acc \in KeySessions
    /\ pc = "ready"
    /\ ret = ""
    /\ io = <<>>
    /\ store = EmptyStore /\ backend = "file"
    /\ run = 1 /\ wire = <<>> /\ posts = 0 /\ issued = 0 /\ ops = 0
    /\ todoAuthz = <<>> /\ todoChal = <<>> /\ origin = "load" /\ headNonce = Absent
    /\ saved = [e \in Emails |-> NoSnapshot]
    /\ procs = <<>>

\* pub fn key_authorization(&self, token: &str) -> String
Key_authorization(token) ==
    /\ pc = "ready"
    /\ ret' = key_authorization(acc, token)
    /\ io' = <<token>>
    /\ UNCHANGED <<store, backend, run, pc, acc, wire, posts, issued, ops, todoAuthz,
                   todoChal, origin, headNonce, saved, procs>>

KeyNext == \E token \in Tokens : Key_authorization(token)

KeySpec == KeyInit /\ [][KeyNext]_vars

\* C18: key_authorization(token) is token, a dot, and the base64url encoding
\* of the SHA-256 digest of the JWK of the session key; it depends on the
\* key pair and the token only; the call sends nothing and leaves the
\* session as it was.
C18_KeyAuthorization ==
    [][ io' # io =>
          /\ ret' = io'[1] \o ".b64url(sha256({crv:P-256,kty:EC,xy:" \o acc.key_pair \o "}))"
          /\ \A a \in KeySessions :
                a.key_pair = acc.key_pair => key_authorization(a, io'[1]) = ret'
          /\ acc' = acc
          /\ wire' = wire /\ posts' = posts /\ issued' = issued
      ]_vars

C18_Witness ==
    /\ io = <<"tok2">>
    /\ ret = "tok2.b64url(sha256({crv:P-256,kty:EC,xy:key-3}))"
    /\ acc.kid = "none"

\* C19: every session returned by new or load has a kid and a nonce, and
\* keeps them through order, info and save: save and info never find the
\* kid absent.
C19_KidAndNoncePresent ==
    /\ (origin \in {"new", "load"} /\ InSession) =>
          /\ acc.kid \notin {None, Absent}
          /\ acc.nonce \notin {None, Absent}
    /\ ret \notin {"panic(unwrap: kid is None)", "panic(unwrap: nonce is None)"}
    /\ \A i \in Signed : i > 1 \/ origin = "load" =>
          wire[i].kidAtSend # None /\ wire[i].nonceAfter \notin {None, Absent}

C19_Witness ==
    \E o \in {"new", "load"} :
        /\ origin = o
        /\ pc = "ready"
        /\ ops >= 2
        /\ \E i \in Signed : IsInfo(i)
        /\ \E i \in 1..Len(io) : io[i] = "write Account"

HeadSent == \E i \in 1..Len(io) : io[i] = "HEAD newNonce"

\* C20: when the response to HEAD newNonce or to a signed request carries no
\* Replay-Nonce header, the operation stops with a missing-nonce failure and
\* the session sends no further request, so none is signed with the nonce
\* already used.
C20_MissingReplayNonceStopsTheSession ==
    /\ \A i \in Signed :
        (wire[i].arrived /\ wire[i].replay = Absent) =>
            /\ i = Len(wire)
            /\ pc = "panicked"
            /\ ret \in {"panic(unwrap: no Replay-Nonce)", "Err(MissingNonce)"}
            /\ \A j \in Signed : j > i => Header(j).nonce # Header(i).nonce
    /\ (HeadSent /\ headNonce = Absent) =>
            /\ wire = <<>>
            /\ pc \in {"failed", "panicked"}

\* io is a prefix of seq
IsPrefix(s, seq) == Len(s) <= Len(seq) /\ s = SubSeq(seq, 1, Len(s))

\* C21: Account::new goes directory fetch, nonce fetch, newAccount POST,
\* store writes; it writes to the store only after the 2xx newAccount
\* response, and a new that fails before that leaves the store as it was.
C21_NewWritesAfterRegistration ==
    [][ origin' = "new" =>
          /\ ops' = 0 =>
                IsPrefix(io', <<"keygen", "GET directory", "HEAD newNonce", "POST",
                                "write KeyPair", "write Account", "write Directory">>)
          /\ (ops' = 0 /\ (store' # store \/ Len(io') > 4)) =>
                /\ pc \in {"new_save", "ready"}
                /\ wire'[1].resource = "newAccount"
                /\ wire'[1].out = "ok"
                /\ http_status_ok(wire'[1].status)
          /\ pc \in {"idle", "failed", "panicked", "ready", "new_nonce", "new_register"}
                /\ pc' \in {"failed", "panicked", "new_nonce", "new_register", "new_save"}
                => store' = store
      ]_vars

C21_Witness ==
    /\ origin = "new"
    /\ run = 2
    /\ pc = "failed"
    /\ wire # <<>> /\ wire[1].arrived /\ wire[1].status = 400
    /\ saved[acc.email].valid

\* C22: Account::load reads and parses the three stored objects before it
\* fetches the nonce; its only network request is one HEAD newNonce; when a
\* stored object is missing or does not parse it fails without any network
\* request.
C22_LoadReadsBeforeNonce ==
    (origin = "load" /\ ops = 0) =>
        /\ IsPrefix(io, <<"read KeyPair", "read Directory", "read Account", "HEAD newNonce">>)
        /\ wire = <<>>
        /\ (pc = "failed" /\ ret \in {"Err(Store)", "Err(KeyDecode)", "Err(JsonDecode)",
                                     "Err(Utf8)"})
              => ~HeadSent

\* the writes of save, in its order, and the object each one writes for a
SaveOrder == <<"KeyPair", "Account", "Directory">>
SavedObject(a, kind) ==
    CASE kind = "KeyPair" -> a.pkcs8
      [] kind = "Account" -> as_bytes(a.kid)
      [] kind = "Directory" -> Directory_to_json(a.directory)

\* the number of store writes the step attempted
Attempted == Len(io') - Len(io)

\* C23: save writes KeyPair, Account, Directory one at a time and stops at
\* the first write that fails, returning the store error: the objects before
\* it are written, the objects after it keep their contents, and no field of
\* the session changes.
C23_TornSave ==
    [][ (pc \in {"new_save", "ready"} /\ run' = run /\ Attempted \in 1..3
         /\ io'[Len(io')] = "write " \o SaveOrder[Attempted]) =>
          /\ SubSeq(io', Len(io) + 1, Len(io'))
                = [n \in 1..Attempted |-> "write " \o SaveOrder[n]]
          /\ ret' \in {"Ok", "Err(Store)"}
          /\ ret' = "Ok" => Attempted = 3
          /\ \A n \in 1..3 :
                /\ (n < Attempted \/ ret' = "Ok") =>
                      Store_read(backend, store', SaveOrder[n], acc.email)
                        = [ok |-> TRUE, val |-> SavedObject(acc, SaveOrder[n])]
                /\ (n > Attempted) =>
                      Store_read(backend, store', SaveOrder[n], acc.email)
                        = Store_read(backend, store, SaveOrder[n], acc.email)
          /\ acc' = acc
      ]_vars

C23_Witness ==
    /\ run = 2
    /\ ret = "Err(Store)"
    /\ io[Len(io)] = "write Account"
    /\ Store_read(backend, store, "KeyPair", acc.email)
          = [ok |-> TRUE, val |-> generate_keypair(2).pkcs8]
    /\ Store_read(backend, store, "Account", acc.email)
          = [ok |-> TRUE, val |-> as_bytes(AcctLocation(1))]

(***************************************************************************)
(* The operations of a session: a process that has loaded its session      *)
(* calls order, info, save and key_authorization, with the whole budget of *)
(* requests left for them.                                                 *)
(***************************************************************************)
LoadedSession ==
    [email |-> CHOOSE e \in Emails : TRUE,
     directory |-> [url |-> LETSENCRYPT_DIRECTORY_URL,
                    directory |-> CHOOSE d \in DirectoryDocs : url_for([directory |-> d], "newNonce") # None],
     key_pair |-> generate_keypair(1).key_pair, pkcs8 |-> generate_keypair(1).pkcs8,
     nonce |-> NonceOf(1, 1), kid |-> AcctLocation(1)]

\* the tokens of the challenges the server of the model offers
OfferedTokens ==
    { l[n].token : l \in ChallengeLists \ {<<>>}, n \in 1..3 }

OrderInit ==
    /\ backend \in Backends
    /\ acc = LoadedSession
    /\ store = save(LoadedSession, EmptyStore, backend, 0).store
    /\ saved = [e \in Emails |-> Persisted(LoadedSession)]
    /\ run = 1 /\ origin = "load" /\ pc = "ready" /\ ret = "Ok"
    /\ io = <<"read KeyPair", "read Directory", "HEAD newNonce", "read Account">>
    /\ headNonce = NonceOf(1, 1) /\ issued = 1
    /\ wire = <<>> /\ posts = 0 /\ ops = 0
    /\ todoAuthz = <<>> /\ todoChal = <<>>
    /\ procs = <<>>

OrderNextStep ==
    \/ \E domains \in DomainLists, resp \in PostResponses(OrderBodies, {Absent}, NextNonce) :
            Order_begin(domains, resp)
    \/ \E resp \in PostResponses(AuthorizationBodies, {Absent}, NextNonce) :
            Order_authorization(resp)
    \/ \E resp \in PostResponses({NoBody}, {Absent}, NextNonce) : Order_trigger(resp)
    \/ \E resp \in PostResponses({NoBody}, {Absent}, NextNonce) : Order_status(resp)
    \/ \E resp \in PostResponses({NoBody}, {Absent}, NextNonce) : Info(resp)
    \/ \E failAt \in 0..3 : Save(failAt)
    \/ \E token \in OfferedTokens : Key_authorization(token)

OrderSpec == OrderInit /\ [][OrderNextStep]_vars

IsTrigger(e) == e.payload = "{}"

\* the number of dns-01 challenges among the challenges of an authorization
RECURSIVE Dns01Count(_)
Dns01Count(challenges) ==
    IF challenges = <<>> THEN 0
    ELSE (IF Head(challenges).type = "dns-01" THEN 1 ELSE 0) + Dns01Count(Tail(challenges))

\* the number of dns-01 challenges the authorizations fetched by requests
\* i+1 .. Len(w) have offered
RECURSIVE Dns01Since(_, _)
Dns01Since(w, i) ==
    IF i >= Len(w) THEN 0
    ELSE Dns01Count(w[i + 1].body.challenges) + Dns01Since(w, i + 1)

\* C24: in order, each dns-01 challenge of an authorization gets one trigger
\* POST {} and then one status poll of the same URL, right after the fetch of
\* its authorization and before the next fetch; nothing more is sent for the
\* challenge; order ends after 1 + N + 2*D requests.
C24_OneTriggerOnePoll ==
    [][ /\ \A i \in 1..Len(wire') :
            LET w == wire'
            IN  /\ (IsTrigger(w[i]) /\ w[i].out = "ok" /\ i < Len(w)) =>
                      /\ w[i + 1].url = w[i].url
                      /\ w[i + 1].payload = ""
                /\ IsTrigger(w[i]) =>
                      /\ i > 1 /\ IsAuthzFetch(w[i - 1]) /\ w[i - 1].out = "ok"
                      /\ \E n \in 1..Len(w[i - 1].body.challenges) :
                            /\ w[i - 1].body.challenges[n].url = w[i].url
                            /\ w[i - 1].body.challenges[n].type = "dns-01"
                /\ (i > 2 /\ IsTrigger(w[i - 2]) /\ w[i - 2].url = w[i - 1].url) =>
                      w[i].url # w[i - 1].url
                /\ (i > 1 /\ IsAuthzFetch(w[i]) /\ w[i - 1].url \notin {OrderUrl, Authz1, Authz2})
                      => i > 2 /\ IsTrigger(w[i - 2]) /\ w[i - 1].out = "ok"
        /\ (/\ pc \in {"ready", "order_authz", "order_status"}
            /\ Len(wire') = Len(wire) + 1
            /\ wire'[Len(wire')].resource # acc.kid
            /\ pc' = "ready" /\ ret' = "Ok")
              => Len(wire') - LastOrder(wire') + 1
                    = 1 + Len(wire'[LastOrder(wire')].body.authorizations)
                        + 2 * Dns01Since(wire', LastOrder(wire'))
      ]_vars

C24_Witness ==
    /\ pc = "ready" /\ ret = "Ok"
    /\ Len(wire) = 5
    /\ wire[1].resource = "newOrder" /\ wire[1].body.authorizations = <<Authz1, Authz2>>
    /\ wire[2].url = Authz1 /\ Dns01Count(wire[2].body.challenges) = 1
    /\ IsTrigger(wire[3])
    /\ wire[4].url = wire[3].url /\ wire[4].payload = ""
    /\ wire[5].url = Authz2

\* the steps in the middle of an operation: the operation has sent a request
\* and is about to send its next one
MidOperation == {"order_authz", "order_trigger", "order_status"}

\* C25: no request is retried. A step sends at most one request; a step in
\* the middle of an operation sends a request only when the operation's
\* previous request succeeded, and never the previous request again; a request
\* that follows a failed one is the first request of another operation. (The
\* requests of a process are the ones recorded since it started.)
C25_NoRetry ==
    [][ (run' = run /\ wire' # wire) =>
          /\ Len(wire') = Len(wire) + 1
          /\ IsPrefix(wire, wire')
          /\ pc \in MidOperation =>
                /\ wire # <<>>
                /\ Latest.out = "ok"
                /\ <<wire'[Len(wire')].url, wire'[Len(wire')].payload>>
                      # <<Latest.url, Latest.payload>>
          /\ (wire # <<>> /\ Latest.out # "ok") => pc = "ready"
      ]_vars

C25_Witness ==
    /\ Len(wire) >= 3
    /\ wire[Len(wire) - 2].resource = "newOrder"
    /\ wire[Len(wire) - 2].out = "ok"
    /\ wire[Len(wire) - 2].body.authorizations = <<Authz1, Authz2>>
    /\ wire[Len(wire) - 1].url = Authz1
    /\ wire[Len(wire) - 1].out = "err"
    /\ Latest.resource = "newOrder"

\* C26: order, info, save and key_authorization change no field of the
\* session but the nonce: key pair, PKCS#8 blob, directory, email and kid stay
\* as they were, whether the operation succeeds, returns an error or panics.
C26_OnlyTheNonceChanges ==
    [][ [acc' EXCEPT !.nonce = acc.nonce] = acc ]_vars

C26_Witness ==
    /\ pc = "ready" /\ ret = "Ok"
    /\ Len(wire) >= 2
    /\ \E i \in 1..Len(wire) : wire[i].out = "err" /\ wire[i].replay # Absent
    /\ Latest.out = "ok"
    /\ acc.nonce = Latest.replay
    /\ acc.nonce # LoadedSession.nonce
    /\ [acc EXCEPT !.nonce = LoadedSession.nonce] = LoadedSession

\* the resource names the session's directory document maps to a URL
Mapped == { n \in DOMAIN acc.directory.directory : acc.directory.directory[n] # Missing }

\* C27: a request whose resource is a name of the directory is posted to the
\* URL the directory maps the name to; any other resource is posted to as a
\* literal URL; the url of the signed protected header is the URL posted to.
C27_RequestTarget ==
    \A i \in 1..Len(wire) :
        /\ wire[i].resource \in Mapped => wire[i].url = acc.directory.directory[wire[i].resource]
        /\ wire[i].resource \notin Mapped => wire[i].url = wire[i].resource
        /\ wire[i].jws.protected.url = wire[i].url

C27_Witness ==
    /\ Len(wire) >= 3
    /\ wire[1].resource = "newAccount" /\ wire[1].url = AccountUrl
    /\ wire[2].resource = "newOrder" /\ wire[2].url = OrderUrl
    /\ wire[3].resource = Authz1 /\ wire[3].url = Authz1
    /\ wire[3].jws.protected.url = Authz1

\* what read(kind, name) returns on the store st
ReadOf(st, key) == AnyStore_read(backend, st, key[1], key[2])

\* the (kind, name) the step's call was about
CallKey == <<io'[1].kind, io'[1].name>>

\* a write that succeeded is read back whole; no call changes what the read
\* of another (kind, name) returns; a read changes nothing
WriteThenRead ==
    /\ (io'[1].op = "write" /\ ret' = "Ok") =>
            ReadOf(store', CallKey) = [ok |-> TRUE, val |-> io'[1].val, panic |-> FALSE]
    /\ \A key \in (Kinds \X Emails) \ {CallKey} : ReadOf(store', key) = ReadOf(store, key)
    /\ io'[1].op = "read" =>
            /\ store' = store
            /\ io'[1].val = ReadOf(store, CallKey).val

\* C28 as stated: through every backend read(kind, name) returns the bytes of
\* the most recent successful write to (kind, name), whole, so a write that
\* fails leaves what read returns as it was; a write to one (kind, name)
\* leaves every other one unchanged.
C28_ReadReturnsLastSuccessfulWrite ==
    [][ /\ WriteThenRead
        /\ (io'[1].op = "write" /\ ret' # "Ok") =>
                ReadOf(store', CallKey) = ReadOf(store, CallKey)
      ]_vars

\* C28 amended: read(kind, name) returns the bytes of the most recent write to
\* (kind, name) when that write succeeded; a write that fails leaves what
\* read returns as it was or, through FileStore, leaves a truncated file in
\* its place; a write to one (kind, name) leaves every other one unchanged.
C28_ReadReturnsLastWriteUnlessTorn ==
    [][ /\ WriteThenRead
        /\ (io'[1].op = "write" /\ ret' # "Ok") =>
                \/ ReadOf(store', CallKey) = ReadOf(store, CallKey)
                \/ /\ backend = "file"
                   /\ ReadOf(store', CallKey) = [ok |-> TRUE, val |-> Truncated, panic |-> FALSE]
      ]_vars

\* a second write to a (kind, name) has replaced the first while another
\* (kind, name) holds its own value
C28_Witness ==
    /\ io # <<>> /\ io[1].op = "write" /\ io[1].written /\ ret = "Ok"
    /\ ReadOf(store, <<io[1].kind, io[1].name>>).val = io[1].val
    /\ \E key \in (Kinds \X Emails) \ {<<io[1].kind, io[1].name>>} :
            /\ ReadOf(store, key).ok
            /\ ReadOf(store, key).val \notin {io[1].val, Truncated}

====
